---- MODULE Spec2Model ----
(***************************************************************************)
(* Model of the Aave health-factor notifier (src/src/main.ts,              *)
(* src/src/environment.ts).                                                *)
(*                                                                         *)
(* Decimals are modelled as integers in tenths (2.5 is 25): decimal.js is  *)
(* exact on the values used here, so comparison and subtraction are the    *)
(* integer ones.  A value that is `Decimal | null` or `string | null` in   *)
(* the source is a sequence of length 0 (null) or 1 (the value).           *)
(***************************************************************************)
EXTENDS Integers, Sequences, FiniteSets

VARIABLES
    environment,      \* the parsed configuration (main.ts:11), immutable
    previousStatus,   \* main.ts:129
    warningWasSent,   \* main.ts:92
    inflight,         \* number of checkHealth invocations awaiting each
                      \* suspension point, and of pending setTimeout callbacks
    statusFetching,   \* number of 'status' handlers awaiting getUserStatus
    hist,             \* history: one record per evaluation made by getAlertMessage
    statusReplying,   \* number of sendMessage calls of 'status' handlers in
                      \* flight, per kind; no handler awaits them
    unhandled,        \* number of rejected sendMessage promises of 'status'
                      \* handlers that reached no handler, per kind
    stopped,          \* bot.stop has been called by a signal handler
    warningDelivery   \* history: fate of the WarningLevel alert that set the latch

statusVars == <<statusFetching, statusReplying, unhandled>>

vars ==
    <<environment, previousStatus, warningWasSent, inflight, hist,
      statusVars, stopped, warningDelivery>>

----------------------------------------------------------------------------
(* Bounds *)

MaxEvals == 3
MaxStatus == 1
MaxHealth == 35

----------------------------------------------------------------------------
(* Values *)

null == <<>>
Some(v) == <<v>>
Val(o) == o[1]

\* Health factors the data source may report, in tenths; null when absent.
HealthFactors == {10, 19, 20, 22, 25, 30}
NetWorths == {100}

UserStatus ==
    [healthFactor : {null} \cup {Some(h) : h \in HealthFactors},
     netWorth : NetWorths]

\* The zod defaults of environment.ts.
DefaultEnvironment ==
    [WARNING_LEVEL |-> 25, CRITICAL_LEVEL |-> 17,
     WARNING_DELTA |-> 5, CRITITAL_DELTA |-> 10]

\* Same deltas, level thresholds below 1.9.
LowLevelEnvironment ==
    [WARNING_LEVEL |-> 15, CRITICAL_LEVEL |-> 12,
     WARNING_DELTA |-> 5, CRITITAL_DELTA |-> 10]

\* environment.ts validates no relation between the two deltas.
SwappedDeltaEnvironment ==
    [WARNING_LEVEL |-> 25, CRITICAL_LEVEL |-> 17,
     WARNING_DELTA |-> 10, CRITITAL_DELTA |-> 5]

Environments == {DefaultEnvironment, LowLevelEnvironment, SwappedDeltaEnvironment}

NoHealthFactorNow == "no health factor now"
CriticalLevel == "critical health factor"
WarningLevel == "warning health factor"
WarningDelta == "warning delta of health factor"
CriticalDelta == "critical delta of health factor"

Phases == {"fetch", "alert", "error", "timer"}

\* The two sendMessage calls of the 'status' handler: the status text and
\* the error text.
ReplyKinds == {"reply", "error"}

Signals == {"SIGINT", "SIGTERM"}

----------------------------------------------------------------------------
(* Pure functions of main.ts *)

\* Mutant: greaterThan in place of greaterThanOrEqualTo.
getStatusFromHealth_exclusive(health) ==
    IF health > environment.WARNING_LEVEL THEN "GOOD"
    ELSE IF health > environment.CRITICAL_LEVEL THEN "WARNING"
    ELSE "CRITICAL"

getStatusFromHealth(health) ==
    IF health >= environment.WARNING_LEVEL THEN "GOOD"
    ELSE IF health >= environment.CRITICAL_LEVEL THEN "WARNING"
    ELSE "CRITICAL"

\* Mutant: CRITICAL is throttled by the latch like WARNING.
levelSwitch_criticalLatched(currentStatus, sent) ==
    CASE currentStatus = "CRITICAL" ->
            [returns |-> TRUE,
             trigger |-> IF sent THEN null ELSE Some(CriticalLevel),
             warningWasSent |-> sent]
      [] currentStatus = "GOOD" ->
            [returns |-> FALSE, trigger |-> null, warningWasSent |-> FALSE]
      [] currentStatus = "WARNING" ->
            IF sent
            THEN [returns |-> TRUE, trigger |-> null, warningWasSent |-> sent]
            ELSE [returns |-> TRUE, trigger |-> Some(WarningLevel), warningWasSent |-> TRUE]

\* Mutant: the WARNING case forgets to set the latch.
levelSwitch_latchNotSet(currentStatus, sent) ==
    CASE currentStatus = "CRITICAL" ->
            [returns |-> TRUE, trigger |-> Some(CriticalLevel), warningWasSent |-> sent]
      [] currentStatus = "GOOD" ->
            [returns |-> FALSE, trigger |-> null, warningWasSent |-> FALSE]
      [] currentStatus = "WARNING" ->
            IF sent
            THEN [returns |-> TRUE, trigger |-> null, warningWasSent |-> sent]
            ELSE [returns |-> TRUE, trigger |-> Some(WarningLevel), warningWasSent |-> sent]

\* Mutant: the GOOD case forgets to clear the latch.
levelSwitch_latchNotCleared(currentStatus, sent) ==
    CASE currentStatus = "CRITICAL" ->
            [returns |-> TRUE, trigger |-> Some(CriticalLevel), warningWasSent |-> sent]
      [] currentStatus = "GOOD" ->
            [returns |-> FALSE, trigger |-> null, warningWasSent |-> sent]
      [] currentStatus = "WARNING" ->
            IF sent
            THEN [returns |-> TRUE, trigger |-> null, warningWasSent |-> sent]
            ELSE [returns |-> TRUE, trigger |-> Some(WarningLevel), warningWasSent |-> TRUE]

\* Mutant: the unlatched WARNING case sets the latch and breaks out to the
\* delta checks instead of returning.
levelSwitch_warningFallsThrough(currentStatus, sent) ==
    CASE currentStatus = "CRITICAL" ->
            [returns |-> TRUE, trigger |-> Some(CriticalLevel), warningWasSent |-> sent]
      [] currentStatus = "GOOD" ->
            [returns |-> FALSE, trigger |-> null, warningWasSent |-> FALSE]
      [] currentStatus = "WARNING" ->
            IF sent
            THEN [returns |-> TRUE, trigger |-> null, warningWasSent |-> sent]
            ELSE [returns |-> FALSE, trigger |-> Some(WarningLevel), warningWasSent |-> TRUE]

\* Mutant: the CRITICAL case clears the latch.
levelSwitch_criticalClears(currentStatus, sent) ==
    CASE currentStatus = "CRITICAL" ->
            [returns |-> TRUE, trigger |-> Some(CriticalLevel), warningWasSent |-> FALSE]
      [] currentStatus = "GOOD" ->
            [returns |-> FALSE, trigger |-> null, warningWasSent |-> FALSE]
      [] currentStatus = "WARNING" ->
            IF sent
            THEN [returns |-> TRUE, trigger |-> null, warningWasSent |-> sent]
            ELSE [returns |-> TRUE, trigger |-> Some(WarningLevel), warningWasSent |-> TRUE]

\* The switch of getAlertTrigger: `returns` tells whether the case returns
\* (CRITICAL, WARNING) or breaks out to the delta checks (GOOD).
levelSwitch(currentStatus, sent) ==
    CASE currentStatus = "CRITICAL" ->
            [returns |-> TRUE, trigger |-> Some(CriticalLevel), warningWasSent |-> sent]
      [] currentStatus = "GOOD" ->
            [returns |-> FALSE, trigger |-> null, warningWasSent |-> FALSE]
      [] currentStatus = "WARNING" ->
            IF sent
            THEN [returns |-> TRUE, trigger |-> null, warningWasSent |-> sent]
            ELSE [returns |-> TRUE, trigger |-> Some(WarningLevel), warningWasSent |-> TRUE]

\* Mutant: the two delta thresholds are used the other way round.
deltaTrigger_swapped(difference) ==
    IF difference > -environment.CRITITAL_DELTA THEN null
    ELSE IF difference > -environment.WARNING_DELTA THEN Some(WarningDelta)
    ELSE Some(CriticalDelta)

\* Mutant: greaterThanOrEqualTo in place of gt.
deltaTrigger_inclusive(difference) ==
    IF difference >= -environment.WARNING_DELTA THEN null
    ELSE IF difference >= -environment.CRITITAL_DELTA THEN Some(WarningDelta)
    ELSE Some(CriticalDelta)

\* The delta checks at the end of getAlertTrigger.
deltaTrigger(difference) ==
    IF difference > -environment.WARNING_DELTA THEN null
    ELSE IF difference > -environment.CRITITAL_DELTA THEN Some(WarningDelta)
    ELSE Some(CriticalDelta)

\* The part of getAlertTrigger after the two absence checks.
levelAndDelta(context, sent) ==
    LET level == levelSwitch(getStatusFromHealth(Val(context.status.healthFactor)), sent)
        difference == Val(context.status.healthFactor)
                        - Val(context.previousStatus.healthFactor)
    IN  IF level.returns
        THEN [trigger |-> level.trigger, warningWasSent |-> level.warningWasSent]
        ELSE [trigger |-> deltaTrigger(difference),
              warningWasSent |-> level.warningWasSent]

\* Mutant: the two absence checks are made in the other order.
getAlertTrigger_absenceFirst(context, sent) ==
    IF context.status.healthFactor = null \/ context.previousStatus.healthFactor = null
    THEN [trigger |-> null, warningWasSent |-> sent]
    ELSE IF context.status.healthFactor = null
              /\ context.previousStatus.healthFactor # null
    THEN [trigger |-> Some(NoHealthFactorNow), warningWasSent |-> sent]
    ELSE levelAndDelta(context, sent)

\* Mutant: the second check tests the current health factor only, and an
\* absent previous health factor is read as the zero of the initial baseline.
getAlertTrigger_previousUnchecked(context, sent) ==
    IF context.status.healthFactor = null /\ context.previousStatus.healthFactor # null
    THEN [trigger |-> Some(NoHealthFactorNow), warningWasSent |-> sent]
    ELSE IF context.status.healthFactor = null
    THEN [trigger |-> null, warningWasSent |-> sent]
    ELSE levelAndDelta(
            [previousStatus |->
                IF context.previousStatus.healthFactor = null
                THEN [context.previousStatus EXCEPT !.healthFactor = Some(0)]
                ELSE context.previousStatus,
             status |-> context.status], sent)

\* Mutant: the absence checks take a health factor of zero for an absent one,
\* as they would on numbers.
getAlertTrigger_zeroFalsy(context, sent) ==
    LET absent(s) == s.healthFactor = null \/ s.healthFactor = Some(0)
    IN  IF absent(context.status) /\ ~absent(context.previousStatus)
        THEN [trigger |-> Some(NoHealthFactorNow), warningWasSent |-> sent]
        ELSE IF absent(context.status) \/ absent(context.previousStatus)
        THEN [trigger |-> null, warningWasSent |-> sent]
        ELSE levelAndDelta(context, sent)

\* getAlertTrigger reads and writes the global warningWasSent: `sent` is its
\* value at the call, the result carries the returned trigger and its value
\* at the return.
getAlertTrigger(context, sent) ==
    IF context.status.healthFactor = null /\ context.previousStatus.healthFactor # null
    THEN [trigger |-> Some(NoHealthFactorNow), warningWasSent |-> sent]
    ELSE IF context.status.healthFactor = null
              \/ context.previousStatus.healthFactor = null
    THEN [trigger |-> null, warningWasSent |-> sent]
    ELSE levelAndDelta(context, sent)

\* Mutant: the baseline advances only when an alert is produced.
getAlertMessage_baselineOnAlert(status) ==
    LET result == getAlertTrigger(
                    [previousStatus |-> previousStatus, status |-> status],
                    warningWasSent)
    IN  [alertTrigger |-> result.trigger,
         previousStatus |-> IF result.trigger # null THEN status ELSE previousStatus,
         warningWasSent |-> result.warningWasSent]

\* getAlertMessage after getUserStatus has resolved with `status`: the
\* trigger, and the globals as the function leaves them.
getAlertMessage(status) ==
    LET result == getAlertTrigger(
                    [previousStatus |-> previousStatus, status |-> status],
                    warningWasSent)
    IN  [alertTrigger |-> result.trigger,
         previousStatus |-> status,
         warningWasSent |-> result.warningWasSent]

----------------------------------------------------------------------------
(* Initial state: the module has been loaded and startCheckingHealth has    *)
(* called checkHealth, which runs up to its first await.                    *)

\* The initial value of previousStatus.
InitialStatus == [healthFactor |-> Some(0), netWorth |-> 0]

Init ==
    /\ environment \in Environments
    /\ previousStatus = InitialStatus
    /\ warningWasSent = FALSE
    /\ inflight = [p \in Phases |-> IF p = "fetch" THEN 1 ELSE 0]
    /\ statusFetching = 0
    /\ hist = <<>>
    /\ statusReplying = [k \in ReplyKinds |-> 0]
    /\ unhandled = [k \in ReplyKinds |-> 0]
    /\ stopped = FALSE
    /\ warningDelivery = "none"

Move(from, to) ==
    [p \in Phases |->
        IF p = from /\ p # to THEN inflight[p] - 1
        ELSE IF p = to /\ p # from THEN inflight[p] + 1
        ELSE inflight[p]]

----------------------------------------------------------------------------
(* The poll loop *)

\* Mutant: the timer is re-armed when the tick starts (a fixed-rate timer).
checkHealth_fixedRate ==
    /\ inflight["timer"] > 0
    /\ inflight["fetch"] + inflight["alert"] + inflight["error"] < 2
    /\ inflight' = [inflight EXCEPT !["fetch"] = @ + 1]
    /\ UNCHANGED <<environment, previousStatus, warningWasSent, hist,
                   statusVars, stopped, warningDelivery>>

\* The setTimeout callback fires: checkHealth runs up to `await getAlertMessage()`.
checkHealth ==
    /\ inflight["timer"] > 0
    /\ inflight' = Move("timer", "fetch")
    /\ UNCHANGED <<environment, previousStatus, warningWasSent, hist,
                   statusVars, stopped, warningDelivery>>

\* Mutant: the alert is sent whether or not getAlertMessage returned one.
checkHealth_fetched_alwaysSends(status) ==
    /\ inflight["fetch"] > 0
    /\ Len(hist) < MaxEvals
    /\ LET r == getAlertMessage(status)
       IN  /\ previousStatus' = r.previousStatus
           /\ warningWasSent' = r.warningWasSent
           /\ hist' = Append(hist,
                        [previousStatus |-> previousStatus,
                         status |-> status,
                         sentBefore |-> warningWasSent,
                         alertTrigger |-> r.alertTrigger,
                         sentAfter |-> r.warningWasSent])
           /\ inflight' = Move("fetch", "alert")
           /\ warningDelivery' =
                IF r.alertTrigger = Some(WarningLevel) THEN "pending"
                ELSE IF ~r.warningWasSent THEN "none"
                ELSE warningDelivery
    /\ UNCHANGED <<environment, statusVars, stopped>>

\* getUserStatus resolves: getAlertMessage evaluates the sample and replaces
\* the baseline; checkHealth then sends the alert, or schedules the next tick.
checkHealth_fetched(status) ==
    /\ inflight["fetch"] > 0
    /\ Len(hist) < MaxEvals
    /\ LET r == getAlertMessage(status)
       IN  /\ previousStatus' = r.previousStatus
           /\ warningWasSent' = r.warningWasSent
           /\ hist' = Append(hist,
                        [previousStatus |-> previousStatus,
                         status |-> status,
                         sentBefore |-> warningWasSent,
                         alertTrigger |-> r.alertTrigger,
                         sentAfter |-> r.warningWasSent])
           /\ inflight' = IF r.alertTrigger # null
                          THEN Move("fetch", "alert")
                          ELSE Move("fetch", "timer")
           /\ warningDelivery' =
                IF r.alertTrigger = Some(WarningLevel) THEN "pending"
                ELSE IF ~r.warningWasSent THEN "none"
                ELSE warningDelivery
    /\ UNCHANGED <<environment, statusVars, stopped>>

\* Mutant: a failed fetch resets the baseline to its initial value.
checkHealth_fetchFailed_resetsBaseline ==
    /\ inflight["fetch"] > 0
    /\ inflight' = Move("fetch", "error")
    /\ previousStatus' = InitialStatus
    /\ UNCHANGED <<environment, warningWasSent, hist,
                   statusVars, stopped, warningDelivery>>

\* getUserStatus throws: the catch block sends the error message.
checkHealth_fetchFailed ==
    /\ inflight["fetch"] > 0
    /\ inflight' = Move("fetch", "error")
    /\ UNCHANGED <<environment, previousStatus, warningWasSent, hist,
                   statusVars, stopped, warningDelivery>>

\* The alert's sendMessage resolves: setTimeout schedules the next tick.
checkHealth_alertSent ==
    /\ inflight["alert"] > 0
    /\ inflight' = Move("alert", "timer")
    /\ warningDelivery' =
        IF warningDelivery = "pending" THEN "delivered" ELSE warningDelivery
    /\ UNCHANGED <<environment, previousStatus, warningWasSent, hist,
                   statusVars, stopped>>

\* Mutant: a failed delivery of the WarningLevel alert clears the latch.
checkHealth_alertFailed_rearms ==
    /\ inflight["alert"] > 0
    /\ inflight' = Move("alert", "error")
    /\ warningDelivery' =
        IF warningDelivery = "pending" THEN "failed" ELSE warningDelivery
    /\ warningWasSent' =
        IF warningDelivery = "pending" THEN FALSE ELSE warningWasSent
    /\ UNCHANGED <<environment, previousStatus, hist, statusVars, stopped>>

\* The alert's sendMessage rejects: the catch block sends the error message.
checkHealth_alertFailed ==
    /\ inflight["alert"] > 0
    /\ inflight' = Move("alert", "error")
    /\ warningDelivery' =
        IF warningDelivery = "pending" THEN "failed" ELSE warningDelivery
    /\ UNCHANGED <<environment, previousStatus, warningWasSent, hist,
                   statusVars, stopped>>

\* The error message's sendMessage resolves: setTimeout schedules the next tick.
checkHealth_errorSent ==
    /\ inflight["error"] > 0
    /\ inflight' = Move("error", "timer")
    /\ UNCHANGED <<environment, previousStatus, warningWasSent, hist,
                   statusVars, stopped, warningDelivery>>

\* The error message's sendMessage rejects inside the catch block: checkHealth
\* rejects before reaching setTimeout, and the caller's .catch logs it.
checkHealth_errorFailed ==
    /\ inflight["error"] > 0
    /\ inflight' = [inflight EXCEPT !["error"] = @ - 1]
    /\ UNCHANGED <<environment, previousStatus, warningWasSent, hist,
                   statusVars, stopped, warningDelivery>>

----------------------------------------------------------------------------
(* The 'status' command *)

\* 'status' requests whose promises are pending or were left rejected.
StatusWork ==
    statusFetching + statusReplying["reply"] + statusReplying["error"]
        + unhandled["reply"] + unhandled["error"]

\* A 'status' update arrives while the bot is polling: the handler runs up
\* to `await getStatusMessage()`.
status_command ==
    /\ ~stopped
    /\ StatusWork < MaxStatus
    /\ statusFetching' = statusFetching + 1
    /\ UNCHANGED <<environment, previousStatus, warningWasSent, inflight, hist,
                   statusReplying, unhandled, stopped, warningDelivery>>

\* Mutant: the handler keeps the sample it fetched as the engine's baseline.
status_fetched_keepsSample(status) ==
    /\ statusFetching > 0
    /\ statusFetching' = statusFetching - 1
    /\ statusReplying' = [statusReplying EXCEPT !["reply"] = @ + 1]
    /\ previousStatus' = status
    /\ UNCHANGED <<environment, warningWasSent, inflight, hist,
                   unhandled, stopped, warningDelivery>>

\* getUserStatus resolves in getStatusMessage: the handler calls
\* context.sendMessage with the status text and returns without awaiting it.
status_fetched(status) ==
    /\ statusFetching > 0
    /\ statusFetching' = statusFetching - 1
    /\ statusReplying' = [statusReplying EXCEPT !["reply"] = @ + 1]
    /\ UNCHANGED <<environment, previousStatus, warningWasSent, inflight, hist,
                   unhandled, stopped, warningDelivery>>

\* getUserStatus throws in getStatusMessage: the catch block calls
\* context.sendMessage with the error text, not awaited either.
status_fetchFailed ==
    /\ statusFetching > 0
    /\ statusFetching' = statusFetching - 1
    /\ statusReplying' = [statusReplying EXCEPT !["error"] = @ + 1]
    /\ UNCHANGED <<environment, previousStatus, warningWasSent, inflight, hist,
                   unhandled, stopped, warningDelivery>>

\* A sendMessage of the 'status' handler resolves.
status_sent(kind) ==
    /\ statusReplying[kind] > 0
    /\ statusReplying' = [statusReplying EXCEPT ![kind] = @ - 1]
    /\ UNCHANGED <<environment, previousStatus, warningWasSent, inflight, hist,
                   statusFetching, unhandled, stopped, warningDelivery>>

\* A sendMessage of the 'status' handler rejects: the promise was not
\* awaited, so the handler's try/catch has been left and nothing handles it.
status_sendFailed(kind) ==
    /\ statusReplying[kind] > 0
    /\ statusReplying' = [statusReplying EXCEPT ![kind] = @ - 1]
    /\ unhandled' = [unhandled EXCEPT ![kind] = @ + 1]
    /\ UNCHANGED <<environment, previousStatus, warningWasSent, inflight, hist,
                   statusFetching, stopped, warningDelivery>>

----------------------------------------------------------------------------
(* Signals *)

\* The first SIGINT or SIGTERM: the handler calls bot.stop, which ends the
\* bot's polling for updates.  It does not clear the timer of the poll loop.
signal(sig) ==
    /\ ~stopped
    /\ stopped' = TRUE
    /\ UNCHANGED <<environment, previousStatus, warningWasSent, inflight, hist,
                   statusVars, warningDelivery>>

----------------------------------------------------------------------------

Next ==
    \/ checkHealth
    \/ \E status \in UserStatus : checkHealth_fetched(status)
    \/ checkHealth_fetchFailed
    \/ checkHealth_alertSent
    \/ checkHealth_alertFailed
    \/ checkHealth_errorSent
    \/ checkHealth_errorFailed
    \/ status_command
    \/ \E status \in UserStatus : status_fetched(status)
    \/ status_fetchFailed
    \/ \E kind \in ReplyKinds : status_sent(kind)
    \/ \E kind \in ReplyKinds : status_sendFailed(kind)
    \/ \E sig \in Signals : signal(sig)

Spec == Init /\ [][Next]_vars

----------------------------------------------------------------------------
(* Vocabulary of the properties: an evaluation is an entry of hist.  The    *)
(* bands are those of the specification's classifier, stated on the         *)
(* thresholds.                                                              *)

Evals == 1..Len(hist)
CurPresent(i) == hist[i].status.healthFactor # null
PrevPresent(i) == hist[i].previousStatus.healthFactor # null
Cur(i) == Val(hist[i].status.healthFactor)
Prev(i) == Val(hist[i].previousStatus.healthFactor)
Fired(i, trigger) == hist[i].alertTrigger = Some(trigger)
NoTrigger(i) == hist[i].alertTrigger = null
LatchKept(i) == hist[i].sentAfter = hist[i].sentBefore

CurGood(i) == CurPresent(i) /\ Cur(i) >= environment.WARNING_LEVEL
CurWarning(i) ==
    /\ CurPresent(i)
    /\ Cur(i) < environment.WARNING_LEVEL
    /\ Cur(i) >= environment.CRITICAL_LEVEL
CurCritical(i) == CurPresent(i) /\ Cur(i) < environment.CRITICAL_LEVEL

\* The first n evaluations since the start had the current health factors hs.
Started(hs) ==
    /\ Len(hist) >= Len(hs)
    /\ \A i \in 1..Len(hs) : hist[i].status.healthFactor = Some(hs[i])

Running == inflight["fetch"] + inflight["alert"] + inflight["error"]

----------------------------------------------------------------------------
\* C1: the poll loop never stops because a tick failed: at every moment a
\* tick is in flight or the next one is scheduled, whatever failed in the
\* ticks before.
C1_LoopNeverStops == Running + inflight["timer"] >= 1

----------------------------------------------------------------------------
\* C2 as stated: every evaluation whose current health factor is present and
\* below criticalLevel fires CriticalLevel, whatever the previous sample and
\* the latch are.
C2_CriticalAlwaysFires ==
    \A i \in Evals : CurCritical(i) => Fired(i, CriticalLevel)

\* C2 amended: every evaluation whose current health factor is below
\* criticalLevel and whose previous health factor is present fires
\* CriticalLevel, whatever the latch is; [1.0, 1.0, 1.0] from the initial
\* state fires CriticalLevel three times.
C2_CriticalFiresWhenPreviousPresent ==
    /\ \A i \in Evals : CurCritical(i) /\ PrevPresent(i) => Fired(i, CriticalLevel)
    /\ Started(<<10, 10, 10>>) => \A i \in 1..3 : Fired(i, CriticalLevel)

C2_Witness ==
    /\ Started(<<10, 10, 10>>)
    /\ \A i \in 1..3 : CurCritical(i) /\ PrevPresent(i) /\ Fired(i, CriticalLevel)

----------------------------------------------------------------------------
\* Evaluations i..j are consecutive and all in the WARNING band.
WarningRun(i, j) == i <= j /\ \A k \in i..j : CurWarning(k)

\* Between two evaluations that fire WarningLevel there is one whose current
\* health factor is in the GOOD band.
GoodBetweenWarnings ==
    \A i \in Evals : \A j \in Evals :
        i < j /\ Fired(i, WarningLevel) /\ Fired(j, WarningLevel)
            => \E k \in (i+1)..(j-1) : CurGood(k)

\* C3 as stated: between two WarningLevel alerts there is a GOOD evaluation,
\* so in a run of consecutive WARNING-band samples only the first may fire
\* WarningLevel and the others produce no trigger.
C3_WarningOnFirstOfRunOnly ==
    /\ GoodBetweenWarnings
    /\ \A i \in Evals : \A j \in Evals :
        i < j /\ WarningRun(i, j) => NoTrigger(j)

\* C3 amended: between two WarningLevel alerts there is a GOOD evaluation; a
\* run of consecutive WARNING-band samples fires WarningLevel at most once,
\* and when the first sample of the run is evaluated against a present
\* previous health factor the other samples produce no trigger;
\* [2.0, 2.0, 2.0] from the initial state with warningLevel 2.5 and
\* criticalLevel 1.7 fires WarningLevel on the first only.
C3_WarningHysteresis ==
    /\ GoodBetweenWarnings
    /\ \A i \in Evals : \A j \in Evals :
        i < j /\ WarningRun(i, j) =>
            /\ ~(Fired(i, WarningLevel) /\ Fired(j, WarningLevel))
            /\ NoTrigger(j) \/ Fired(j, WarningLevel)
            /\ PrevPresent(i) => NoTrigger(j)
    /\ environment.WARNING_LEVEL = 25 /\ environment.CRITICAL_LEVEL = 17
            /\ Started(<<20, 20, 20>>)
        => Fired(1, WarningLevel) /\ NoTrigger(2) /\ NoTrigger(3)

C3_Witness ==
    /\ environment.WARNING_LEVEL = 25 /\ environment.CRITICAL_LEVEL = 17
    /\ Started(<<20, 20, 20>>)
    /\ Fired(1, WarningLevel)

----------------------------------------------------------------------------
\* The next WARNING-band evaluation after evaluation i is j.
NextWarning(i, j) ==
    i < j /\ CurWarning(j) /\ \A k \in (i+1)..(j-1) : ~CurWarning(k)

\* C4 as stated: after any evaluation whose current health factor is in the
\* GOOD band the latch is false, so the next WARNING-band evaluation with a
\* present previous health factor fires WarningLevel.
C4_GoodRearms ==
    /\ \A i \in Evals : CurGood(i) => ~hist[i].sentAfter
    /\ \A i \in Evals : \A j \in Evals :
        CurGood(i) /\ NextWarning(i, j) /\ PrevPresent(j)
            => Fired(j, WarningLevel)

\* C4 amended: after any evaluation whose current health factor is in the
\* GOOD band and whose previous health factor is present the latch is false,
\* so the next WARNING-band evaluation with a present previous health factor
\* fires WarningLevel; a GOOD sample evaluated against an absent previous
\* health factor leaves the latch as it was.
C4_GoodRearmsWhenPreviousPresent ==
    /\ \A i \in Evals : CurGood(i) /\ PrevPresent(i) => ~hist[i].sentAfter
    /\ \A i \in Evals : \A j \in Evals :
        CurGood(i) /\ PrevPresent(i) /\ NextWarning(i, j) /\ PrevPresent(j)
            => Fired(j, WarningLevel)
    /\ \A i \in Evals : CurGood(i) /\ ~PrevPresent(i) => LatchKept(i)

C4_Witness ==
    \E i \in Evals : \E j \in Evals :
        /\ CurGood(i) /\ PrevPresent(i) /\ hist[i].sentBefore
        /\ NextWarning(i, j) /\ PrevPresent(j) /\ Fired(j, WarningLevel)

----------------------------------------------------------------------------
\* C5: after every tick that evaluated a sample, previousStatus is that
\* sample, whether or not a trigger fired or the alert was delivered, and
\* every evaluation compares against the sample evaluated just before it.
C5_BaselineIsLastSample ==
    /\ Len(hist) > 0 => previousStatus = hist[Len(hist)].status
    /\ \A i \in Evals : i > 1 => hist[i].previousStatus = hist[i-1].status

C5_Witness ==
    /\ Len(hist) >= 3
    /\ NoTrigger(1) /\ ~NoTrigger(2) /\ NoTrigger(3)
    /\ hist[1].status # hist[2].status /\ hist[2].status # hist[3].status
    /\ inflight["timer"] = 1

----------------------------------------------------------------------------
\* The difference computed by the evaluation: current minus previous.
Delta(i) == Cur(i) - Prev(i)
Drop(i, from, to) ==
    PrevPresent(i) /\ CurPresent(i) /\ Prev(i) = from /\ Cur(i) = to

DeltasOfExample ==
    environment.WARNING_DELTA = 5 /\ environment.CRITITAL_DELTA = 10
LevelsOfExample ==
    environment.WARNING_LEVEL = 25 /\ environment.CRITICAL_LEVEL = 17

\* C6 as stated: with warningDelta 0.5, criticalDelta 1.0, warningLevel 2.5
\* and criticalLevel 1.7, current 2.2 after previous 3.0 fires WarningDelta
\* and current 1.9 after previous 3.0 fires CriticalDelta.
C6_DeltaExample ==
    DeltasOfExample /\ LevelsOfExample =>
        \A i \in Evals :
            /\ Drop(i, 30, 22) => Fired(i, WarningDelta)
            /\ Drop(i, 30, 19) => Fired(i, CriticalDelta)

\* C6 amended: with warningDelta 0.5 and criticalDelta 1.0, current 2.2
\* after previous 3.0 fires WarningDelta and current 1.9 after previous 3.0
\* fires CriticalDelta when warningLevel is at most 1.9 (both currents GOOD);
\* with warningLevel 2.5 and criticalLevel 1.7 both currents are in the
\* WARNING band and the evaluation fires WarningLevel if the latch is false
\* and nothing if it is true.
C6_DeltaExampleOnGoodSamples ==
    /\ DeltasOfExample /\ environment.WARNING_LEVEL <= 19 =>
        \A i \in Evals :
            /\ Drop(i, 30, 22) => Fired(i, WarningDelta)
            /\ Drop(i, 30, 19) => Fired(i, CriticalDelta)
    /\ DeltasOfExample /\ LevelsOfExample =>
        \A i \in Evals :
            Drop(i, 30, 22) \/ Drop(i, 30, 19) =>
                IF hist[i].sentBefore THEN NoTrigger(i) ELSE Fired(i, WarningLevel)

C6_Witness ==
    /\ DeltasOfExample /\ environment.WARNING_LEVEL <= 19
    /\ Started(<<30, 19, 30>>)
    /\ NoTrigger(1) /\ Drop(2, 30, 19) /\ Fired(2, CriticalDelta)

----------------------------------------------------------------------------
\* The three cases of the delta rule on evaluation i.
DeltaRule(i) ==
    /\ Delta(i) > -environment.WARNING_DELTA => NoTrigger(i)
    /\ -environment.CRITITAL_DELTA < Delta(i)
            /\ Delta(i) <= -environment.WARNING_DELTA
        => Fired(i, WarningDelta)
    /\ Delta(i) <= -environment.CRITITAL_DELTA => Fired(i, CriticalDelta)

\* C7 as stated: on every evaluation with both health factors present and
\* the current one GOOD, delta > -warningDelta gives no trigger,
\* -criticalDelta < delta <= -warningDelta gives WarningDelta and
\* delta <= -criticalDelta gives CriticalDelta.
C7_DeltaRule ==
    \A i \in Evals : CurGood(i) /\ PrevPresent(i) => DeltaRule(i)

\* C7 amended: the three cases hold when warningDelta <= criticalDelta; when
\* criticalDelta < warningDelta the first case wins: delta > -warningDelta
\* gives no trigger, every other delta gives CriticalDelta and WarningDelta
\* is never fired.
C7_DeltaRuleOnOrderedDeltas ==
    \A i \in Evals : CurGood(i) /\ PrevPresent(i) =>
        IF environment.WARNING_DELTA <= environment.CRITITAL_DELTA
        THEN DeltaRule(i)
        ELSE /\ Delta(i) > -environment.WARNING_DELTA => NoTrigger(i)
             /\ Delta(i) <= -environment.WARNING_DELTA => Fired(i, CriticalDelta)

C7_Witness ==
    /\ environment.WARNING_DELTA < environment.CRITITAL_DELTA
    /\ \E i \in Evals :
        /\ CurGood(i) /\ PrevPresent(i)
        /\ Delta(i) = -environment.WARNING_DELTA /\ Fired(i, WarningDelta)
    /\ \E i \in Evals :
        /\ CurGood(i) /\ PrevPresent(i)
        /\ Delta(i) < -environment.WARNING_DELTA
        /\ Delta(i) > -environment.CRITITAL_DELTA
        /\ Fired(i, WarningDelta)

----------------------------------------------------------------------------
\* C8: whenever the current health factor is absent and the previous one is
\* present, the evaluation fires NoLongerComputable and leaves the latch
\* unchanged, for every threshold, previous health factor and latch value.
C8_NoLongerComputable ==
    \A i \in Evals : ~CurPresent(i) /\ PrevPresent(i) =>
        Fired(i, NoHealthFactorNow) /\ LatchKept(i)

C8_Witness ==
    \E i \in Evals :
        /\ ~CurPresent(i) /\ PrevPresent(i) /\ hist[i].sentBefore
        /\ Fired(i, NoHealthFactorNow) /\ hist[i].sentAfter

----------------------------------------------------------------------------
\* C9: an evaluation whose previous health factor is absent produces no
\* trigger and leaves the latch unchanged, whether the current one is absent
\* or present in any band.
C9_NoTriggerWithoutPrevious ==
    \A i \in Evals : ~PrevPresent(i) => NoTrigger(i) /\ LatchKept(i)

C9_Witness ==
    /\ \E i \in Evals : ~PrevPresent(i) /\ ~CurPresent(i)
    /\ \E i \in Evals : ~PrevPresent(i) /\ CurCritical(i)

----------------------------------------------------------------------------
\* C10: at most one checkHealth invocation is in flight, and a next tick is
\* pending only when none is: ticks never overlap, also while status
\* commands are being served.
C10_TicksNeverOverlap ==
    /\ Running <= 1
    /\ inflight["timer"] > 0 => Running = 0 /\ inflight["timer"] = 1

C10_Witness ==
    /\ Len(hist) >= 2
    /\ inflight["alert"] = 1
    /\ statusFetching > 0

----------------------------------------------------------------------------
\* C11: no fetch or delivery failure of the primary operation, of a tick or
\* of a status query, escapes the operation unhandled: none of the status
\* texts sent by a 'status' handler is left rejected without a handler.  (In
\* a tick both failures lead to the "error" phase, see
\* checkHealth_fetchFailed and checkHealth_alertFailed.)
C11_NoPrimaryFailureEscapes == unhandled["reply"] = 0

----------------------------------------------------------------------------
\* C12: after a termination signal has been received no new poll tick is
\* scheduled or started.
C12_NoTickAfterSignal ==
    [][stopped =>
        /\ inflight'["timer"] <= inflight["timer"]
        /\ inflight'["fetch"] <= inflight["fetch"]]_vars

----------------------------------------------------------------------------
\* The triggers the poll loop produces on a sequence of samples when nothing
\* else runs, from the baseline prev and the latch sent.
RECURSIVE TriggersOf(_, _, _)
TriggersOf(samples, prev, sent) ==
    IF samples = <<>> THEN <<>>
    ELSE LET r == getAlertTrigger(
                    [previousStatus |-> prev, status |-> Head(samples)], sent)
         IN  <<r.trigger>> \o TriggersOf(Tail(samples), Head(samples), r.warningWasSent)

StatusStep == statusVars' # statusVars

\* C13: serving a status command, at any point of a poll tick, leaves
\* previousStatus and warningWasSent unchanged, and the triggers of the poll
\* loop are those it produces on the same samples without status queries.
C13_StatusLeavesEngineAlone ==
    /\ [][StatusStep => UNCHANGED <<previousStatus, warningWasSent>>]_vars
    /\ [](  [i \in Evals |-> hist[i].alertTrigger]
          = TriggersOf([i \in Evals |-> hist[i].status], InitialStatus, FALSE))

C13_Witness ==
    /\ Len(hist) >= 2
    /\ Fired(1, WarningLevel) /\ NoTrigger(2)
    /\ statusReplying["reply"] = 1
    /\ inflight["fetch"] = 1

----------------------------------------------------------------------------
\* C14: for warningLevel > criticalLevel > 0 and every health factor h,
\* getStatusFromHealth(h) is GOOD iff h >= warningLevel, CRITICAL iff
\* h < criticalLevel and WARNING otherwise; warningLevel itself is GOOD and
\* criticalLevel itself is WARNING.
C14_Classifier ==
    environment.WARNING_LEVEL > environment.CRITICAL_LEVEL
            /\ environment.CRITICAL_LEVEL > 0 =>
        /\ \A h \in 0..MaxHealth :
            LET status == getStatusFromHealth(h) IN
            /\ status = "GOOD" <=> h >= environment.WARNING_LEVEL
            /\ status = "CRITICAL" <=> h < environment.CRITICAL_LEVEL
            /\ status = "WARNING" <=>
                    h < environment.WARNING_LEVEL /\ h >= environment.CRITICAL_LEVEL
        /\ getStatusFromHealth(environment.WARNING_LEVEL) = "GOOD"
        /\ getStatusFromHealth(environment.CRITICAL_LEVEL) = "WARNING"

\* A sample equal to warningLevel was evaluated as GOOD: it cleared the latch.
C14_Witness ==
    \E i \in Evals :
        /\ PrevPresent(i) /\ CurPresent(i)
        /\ Cur(i) = environment.WARNING_LEVEL
        /\ hist[i].sentBefore /\ ~hist[i].sentAfter

----------------------------------------------------------------------------
FiredDelta(i) == Fired(i, WarningDelta) \/ Fired(i, CriticalDelta)

\* C15 as stated: an evaluation whose current health factor is in the
\* WARNING band returns WarningLevel when the latch was false, setting it,
\* and no trigger when the latch was true, never a delta trigger; delta
\* triggers fire only when the current health factor is GOOD.
C15_WarningShortCircuits ==
    /\ \A i \in Evals : CurWarning(i) =>
        \/ Fired(i, WarningLevel) /\ ~hist[i].sentBefore /\ hist[i].sentAfter
        \/ NoTrigger(i) /\ hist[i].sentBefore
    /\ \A i \in Evals : FiredDelta(i) => CurGood(i)

\* C15 amended: the same for evaluations whose previous health factor is
\* present; with an absent previous health factor a WARNING-band evaluation
\* returns no trigger and leaves the latch as it was, false included.
C15_WarningShortCircuitsWhenPreviousPresent ==
    /\ \A i \in Evals : CurWarning(i) =>
        IF PrevPresent(i)
        THEN \/ Fired(i, WarningLevel) /\ ~hist[i].sentBefore /\ hist[i].sentAfter
             \/ NoTrigger(i) /\ hist[i].sentBefore /\ hist[i].sentAfter
        ELSE NoTrigger(i) /\ LatchKept(i)
    /\ \A i \in Evals : FiredDelta(i) => CurGood(i)

C15_Witness ==
    /\ \E i \in Evals :
        /\ CurWarning(i) /\ PrevPresent(i)
        /\ Delta(i) <= -environment.CRITITAL_DELTA
        /\ Fired(i, WarningLevel)
    /\ \E i \in Evals : CurWarning(i) /\ hist[i].sentBefore /\ NoTrigger(i)

----------------------------------------------------------------------------
\* C16: in a tick whose fetch succeeds one alert sendMessage is started if
\* the evaluation returned a trigger and nothing is sent if it returned none;
\* no alert sendMessage is started at any other step.
C16_AlertIffTrigger ==
    [][/\ Len(hist') > Len(hist) =>
            IF hist'[Len(hist')].alertTrigger # null
            THEN /\ inflight'["alert"] = inflight["alert"] + 1
                 /\ inflight'["error"] = inflight["error"]
                 /\ inflight'["timer"] = inflight["timer"]
            ELSE /\ inflight'["alert"] = inflight["alert"]
                 /\ inflight'["error"] = inflight["error"]
       /\ inflight'["alert"] > inflight["alert"] => Len(hist') > Len(hist)]_vars

C16_Witness ==
    /\ Len(hist) >= 3
    /\ ~NoTrigger(1) /\ NoTrigger(2) /\ ~NoTrigger(3)
    /\ inflight["alert"] = 1

----------------------------------------------------------------------------
\* C17: the latch is set only by an evaluation with both health factors
\* present and the current one in the WARNING band, and cleared only by one
\* with both present and the current one in the GOOD band; evaluations that
\* fire CriticalLevel or NoLongerComputable or have an absent health factor
\* leave it unchanged, and nothing but an evaluation changes it; after
\* WARNING (alert) then CRITICAL a following WARNING sample gives no trigger.
C17_LatchFrame ==
    /\ [][warningWasSent' # warningWasSent =>
            /\ Len(hist') = Len(hist) + 1
            /\ hist'[Len(hist')].sentBefore = warningWasSent
            /\ hist'[Len(hist')].sentAfter = warningWasSent']_vars
    /\ [](\A i \in Evals :
            /\ hist[i].sentAfter /\ ~hist[i].sentBefore
                => CurWarning(i) /\ PrevPresent(i)
            /\ ~hist[i].sentAfter /\ hist[i].sentBefore
                => CurGood(i) /\ PrevPresent(i)
            /\ \/ Fired(i, CriticalLevel) \/ Fired(i, NoHealthFactorNow)
               \/ ~CurPresent(i) \/ ~PrevPresent(i)
                => LatchKept(i)
            /\ i + 2 <= Len(hist) /\ Fired(i, WarningLevel)
                    /\ CurCritical(i + 1) /\ CurWarning(i + 2)
                => NoTrigger(i + 2))

C17_Witness ==
    /\ Len(hist) >= 3
    /\ Fired(1, WarningLevel) /\ Fired(2, CriticalLevel)
    /\ CurWarning(3) /\ NoTrigger(3)
    /\ warningWasSent

----------------------------------------------------------------------------
\* C18 as stated: whenever the latch is set, the WarningLevel alert that set
\* it has been delivered (or its delivery is still under way): an alert
\* whose delivery failed does not leave the latch set.
C18_LatchMeansWarned ==
    warningWasSent => warningDelivery \in {"pending", "delivered"}

\* C18 amended: the latch is set exactly when a WarningLevel alert has fired
\* since the latch was last false and its delivery has been attempted; the
\* delivery may have failed, the latch stays set then, and the following
\* WARNING-band evaluations give no trigger.
C18_LatchMeansAttempted ==
    /\ [](warningWasSent <=> warningDelivery \in {"pending", "delivered", "failed"})
    /\ [][warningDelivery = "failed" /\ Len(hist') > Len(hist)
                /\ hist'[Len(hist')].status.healthFactor # null
                /\ getStatusFromHealth(Val(hist'[Len(hist')].status.healthFactor))
                        = "WARNING"
            => hist'[Len(hist')].alertTrigger = null /\ warningWasSent']_vars

C18_Witness ==
    /\ warningDelivery = "failed"
    /\ Len(hist) >= 2
    /\ Fired(Len(hist) - 1, WarningLevel)
    /\ CurWarning(Len(hist)) /\ NoTrigger(Len(hist))

----------------------------------------------------------------------------
FetchFailedStep ==
    inflight'["fetch"] < inflight["fetch"] /\ inflight'["error"] > inflight["error"]

\* C19: a failed fetch leaves previousStatus and warningWasSent unchanged and
\* evaluates nothing; every evaluation compares against the sample of the
\* evaluation before it, the first against the initial sentinel, whatever
\* fetches failed in between.
C19_FailedFetchKeepsState ==
    /\ [][FetchFailedStep => UNCHANGED <<previousStatus, warningWasSent, hist>>]_vars
    /\ [](\A i \in Evals :
            hist[i].previousStatus =
                IF i = 1 THEN InitialStatus ELSE hist[i - 1].status)
    /\ [](previousStatus =
            IF hist = <<>> THEN InitialStatus ELSE hist[Len(hist)].status)

\* A fetch has just failed in the tick after an evaluation without trigger.
C19_Witness ==
    /\ Len(hist) >= 1
    /\ NoTrigger(Len(hist))
    /\ inflight["error"] = 1
    /\ warningWasSent

----------------------------------------------------------------------------
\* C20: the first evaluation compares against the initial previousStatus,
\* whose health factor 0 is present: it gives no trigger when the sample is
\* GOOD, WarningLevel when it is in the WARNING band, CriticalLevel when it
\* is CRITICAL and NoLongerComputable when its health factor is absent.
C20_FirstEvaluation ==
    Len(hist) >= 1 =>
        /\ hist[1].previousStatus = InitialStatus
        /\ PrevPresent(1) /\ Prev(1) = 0
        /\ CurGood(1) => NoTrigger(1) /\ Delta(1) >= 0
        /\ CurWarning(1) => Fired(1, WarningLevel)
        /\ CurCritical(1) => Fired(1, CriticalLevel)
        /\ ~CurPresent(1) => Fired(1, NoHealthFactorNow)

C20_Witness ==
    /\ Len(hist) >= 1
    /\ CurGood(1) /\ NoTrigger(1)
    /\ previousStatus = hist[1].status

====
